---- MODULE Spec2Model ----
(***************************************************************************)
(* State-machine model of the OtterAI client (src/server.js, class OtterAI,*)
(* lines 919-1444).  One client instance: its identity, its cookie jar,    *)
(* the Cookie header installed on its axios session, the operation in      *)
(* flight and the network events that operation produced.  The express     *)
(* server in front of it (lines 93-344) is a second state machine over the *)
(* session map and the clock.                                              *)
(*                                                                         *)
(* Strings whose contents the code inspects (Set-Cookie entries, cookie    *)
(* names and values, file names, format lists) are sequences of tokens, so *)
(* split / trim / join / includes are computed, not assumed.               *)
(***************************************************************************)
EXTENDS Integers, Sequences, FiniteSets, TLC

VARIABLES
    userid,        \* this.userid
    cookies,       \* this.cookies: insertion-ordered <<name, value>> pairs
    cookieHeader,  \* this.session.defaults.headers.common['Cookie']
    op,            \* the call in flight, or the most recent call and its result
    netlog,        \* network events (requests, responses) of op, in order
    sinceLogin,    \* Cookie headers of session requests since the last status-200 login
    logins200,     \* number of logins that returned status 200, counted up to MaxLogins
    files,         \* names of the files written by downloadSpeech
    sessions,      \* server: the sessions Map, session id -> session data
    now,           \* server: Date.now(), in units of 12 hours
    nextInst,      \* server: identity of the next OtterAI instance constructed
    handled        \* server: the most recent handler run and what it answered

clientVars == <<userid, cookies, cookieHeader, op, netlog, sinceLogin, logins200, files>>

serverVars == <<sessions, now, nextInst, handled>>

vars == <<clientVars, serverVars>>

authVars == <<userid, cookies, cookieHeader>>

-----------------------------------------------------------------------------
(* Bounds of the model *)

MaxLogins == 2      \* logins200 stops counting here
MaxSpeeches == 2    \* longest speeches array a response carries

-----------------------------------------------------------------------------
(* JavaScript values *)

Null == "null"                \* this.userid = null (constructor)
Undefined == "undefined"      \* a property read that finds nothing
UserIds == {"u1", "u2"}

\* !x for the values userid takes here (null, undefined, a non-empty string)
Falsy(x) == x \in {Null, Undefined}

NoHeader == <<"(no Cookie header)">>
UndefStr == <<"(undefined)">>      \* undefined where a string was expected
NullStr == <<"(null)">>            \* null where a string was expected

\* truthiness of a string-or-undefined value
Truthy(s) == s # UndefStr /\ s # NullStr /\ s # <<>>

-----------------------------------------------------------------------------
(* String helpers: a string is a sequence of tokens *)

FirstIdx(s, c) ==
    IF \E i \in 1..Len(s) : s[i] = c
    THEN CHOOSE i \in 1..Len(s) : s[i] = c /\ \A j \in 1..(i-1) : s[j] # c
    ELSE 0

Includes(s, c) == \E i \in 1..Len(s) : s[i] = c

\* s.split(c)[0]
SplitFirst(s, c) ==
    IF FirstIdx(s, c) = 0 THEN s ELSE SubSeq(s, 1, FirstIdx(s, c) - 1)

\* s.split(c)[1]: undefined when s holds no c
SplitSecond(s, c) ==
    IF FirstIdx(s, c) = 0 THEN UndefStr
    ELSE SplitFirst(SubSeq(s, FirstIdx(s, c) + 1, Len(s)), c)

RECURSIVE TrimLeft(_)
TrimLeft(s) == IF s # <<>> /\ Head(s) = " " THEN TrimLeft(Tail(s)) ELSE s

RECURSIVE TrimRight(_)
TrimRight(s) ==
    IF s # <<>> /\ s[Len(s)] = " " THEN TrimRight(SubSeq(s, 1, Len(s) - 1)) ELSE s

Trim(s) == TrimRight(TrimLeft(s))

-----------------------------------------------------------------------------
(* Cookie jar *)

JarNames(jar) == {jar[i][1] : i \in 1..Len(jar)}

\* obj[name]
JarGet(jar, name) ==
    IF \E i \in 1..Len(jar) : jar[i][1] = name
    THEN (CHOOSE p \in {jar[i] : i \in 1..Len(jar)} : p[1] = name)[2]
    ELSE UndefStr

\* obj[name] = value: an existing key keeps its position, a new key is appended
JarPut(jar, name, value) ==
    IF \E i \in 1..Len(jar) : jar[i][1] = name
    THEN [i \in 1..Len(jar) |-> IF jar[i][1] = name THEN <<name, value>> ELSE jar[i]]
    ELSE Append(jar, <<name, value>>)

\* the forEach callback of _extractCookies
ExtractOne(jar, cookie) ==
    LET nameValue == SplitFirst(cookie, ";")
        name == SplitFirst(nameValue, "=")
        value == SplitSecond(nameValue, "=")
    IN IF Truthy(name) /\ Truthy(value)
       THEN JarPut(jar, Trim(name), Trim(value))
       ELSE jar

RECURSIVE ExtractFrom(_, _)
ExtractFrom(jar, entries) ==
    IF entries = <<>> THEN jar
    ELSE ExtractFrom(ExtractOne(jar, Head(entries)), Tail(entries))

\* setCookie: [present |-> BOOLEAN, entries |-> sequence of strings]
_extractCookies(setCookie) ==
    IF setCookie.present THEN ExtractFrom(<<>>, setCookie.entries) ELSE <<>>

\* Object.entries(jar).map(([n, v]) => `${n}=${v}`).join('; ')
RECURSIVE Serialize(_)
Serialize(jar) ==
    IF jar = <<>> THEN <<>>
    ELSE LET p == Head(jar)
             one == p[1] \o <<"=">> \o p[2]
         IN IF Len(jar) = 1 THEN one
            ELSE one \o <<";", " ">> \o Serialize(Tail(jar))

\* fault variant: the header is never installed
_setCookieHeader_never(jar, header) == header

\* the value _setCookieHeader leaves in the session defaults
_setCookieHeader(jar, header) ==
    IF Len(jar) > 0 THEN Serialize(jar) ELSE header

\* fault variant: tests only for undefined, so the constructor's null passes
_isUseridInvalid_undefinedOnly(u) == u = Undefined

_isUseridInvalid(u) == Falsy(u)

-----------------------------------------------------------------------------
(* Results of an operation *)

NoResult == [kind |-> "none"]
Throw(msg) == [kind |-> "throw", msg |-> msg]        \* OtterAIException(msg)
Envelope(status, data) == [kind |-> "envelope", status |-> status, data |-> data]

\* fault variant: every answer is reported as status 200
_handleResponse_status200(r) == Envelope(200, r.data)

\* _handleResponse(response): the {status, data} envelope of a response
_handleResponse(r) == Envelope(r.status, r.data)

NotAuthenticated == Throw(<<"userid is invalid">>)

-----------------------------------------------------------------------------
(* What the remote side may answer.  kind "fail" is a transport failure    *)
(* (the awaited axios call rejects); validateStatus: () => true makes      *)
(* every HTTP status a normal response.                                    *)

TransportFailure == [kind |-> "fail", msg |-> "timeout"]

Responses ==
    {TransportFailure}
    \cup {[kind |-> "resp", status |-> s, data |-> [tag |-> "body"]] : s \in {200, 403}}

\* Set-Cookie headers a login response may carry
SetCookieChoices ==
    { [present |-> FALSE, entries |-> <<>>],
      [present |-> TRUE, entries |-> << <<"sid", "=", "A">> >>],
      [present |-> TRUE, entries |-> << <<"sid", "=", "B", ";", " ", "Path", "=", "/">>,
                                        <<" ", "csrftoken", "=", "T">> >>],
      [present |-> TRUE, entries |-> << <<"sid", "=">> >>],
      [present |-> TRUE, entries |-> << <<"sid", "=", "A">>, <<"sid", "=", "B">> >>],
      [present |-> TRUE, entries |-> << <<"csrftoken", "=", "T", "=", "=", ";", "Secure">> >>] }

\* body of a login response: null, or an object with or without userid
LoginBodies ==
    {[null |-> TRUE, userid |-> Undefined]}
    \cup {[null |-> FALSE, userid |-> u] : u \in UserIds \cup {Undefined}}

LoginResponses ==
    {TransportFailure}
    \cup {[kind |-> "resp", status |-> 200, data |-> b, setCookie |-> c] :
            b \in LoginBodies, c \in SetCookieChoices}
    \cup {[kind |-> "resp", status |-> 403, data |-> b, setCookie |-> c] :
            b \in {[null |-> FALSE, userid |-> u] : u \in {"u1", Undefined}},
            c \in {c \in SetCookieChoices : Len(c.entries) < 2}}

-----------------------------------------------------------------------------
(* Network events *)

\* a request sent through this.session carries the session's default headers
SessionReq(step, ep, method, more) ==
    [t |-> "req", step |-> step, ep |-> ep, method |-> method, via |-> "session",
     cookie |-> cookieHeader, more |-> more]

\* a request sent through the bare axios module carries no session defaults
AxiosReq(step, ep, method, more) ==
    [t |-> "req", step |-> step, ep |-> ep, method |-> method, via |-> "axios",
     cookie |-> NoHeader, more |-> more]

RespEvent(step, r) == [t |-> "resp", step |-> step, r |-> r]

Requests(log) == SelectSeq(log, LAMBDA e : e.t = "req")

Done(name, args, result) ==
    [name |-> name, pc |-> "done", args |-> args, result |-> result]

NoArgs == [none |-> TRUE]

NoCall == Done("none", NoArgs, NoResult)

\* The caller awaits each call: the next one starts once the previous
\* result has been taken.
CanStart == op = NoCall

\* the awaiting caller resumes with the settled result (or exception)
callerResumes ==
    /\ op.pc = "done"
    /\ op # NoCall
    /\ op' = NoCall
    /\ netlog' = <<>>
    /\ UNCHANGED <<authVars, sinceLogin, logins200, files, serverVars>>

-----------------------------------------------------------------------------
(* login, lines 972-1002 *)

\* fault variant: only server errors count as a failed login
LoginOk_below500(status) == status < 500

LoginOk(status) == status = 200

login ==
    /\ CanStart
    /\ \E r \in LoginResponses :
         LET req == SessionReq("login", "login", "GET", [auth |-> "basic"])
         IN  /\ netlog' = <<req, RespEvent("login", r)>>
             /\ \/ /\ r.kind = "fail"
                   /\ op' = Done("login", NoArgs, Throw(<<"Login failed", r.msg>>))
                   /\ sinceLogin' = sinceLogin \cup {cookieHeader}
                   /\ UNCHANGED <<authVars, logins200>>
                \/ /\ r.kind = "resp"
                   /\ ~LoginOk(r.status)
                   /\ op' = Done("login", NoArgs, _handleResponse(r))
                   /\ sinceLogin' = sinceLogin \cup {cookieHeader}
                   /\ UNCHANGED <<authVars, logins200>>
                \/ \* response.data.userid on a null body is a TypeError, caught at 999
                   /\ r.kind = "resp"
                   /\ LoginOk(r.status)
                   /\ r.data.null
                   /\ op' = Done("login", NoArgs, Throw(<<"Login failed", "TypeError">>))
                   /\ sinceLogin' = sinceLogin \cup {cookieHeader}
                   /\ UNCHANGED <<authVars, logins200>>
                \/ /\ r.kind = "resp"
                   /\ LoginOk(r.status)
                   /\ ~r.data.null
                   /\ userid' = r.data.userid
                   /\ cookies' = _extractCookies(r.setCookie)
                   /\ cookieHeader' = _setCookieHeader(cookies', cookieHeader)
                   /\ op' = Done("login", NoArgs, _handleResponse(r))
                   /\ sinceLogin' = {}
                   /\ logins200' = IF logins200 < MaxLogins THEN logins200 + 1
                                   ELSE logins200
    /\ UNCHANGED <<files, serverVars>>

-----------------------------------------------------------------------------
(* Single-request operations *)

\* try { response = await this.session.<method>(...); return _handleResponse }
\* catch (error) { throw new OtterAIException(`<failmsg>: ${error.message}`) }
Call(name, args, req, failmsg) ==
    \E r \in Responses :
        /\ netlog' = <<req, RespEvent(req.step, r)>>
        /\ op' = Done(name, args,
                      IF r.kind = "fail" THEN Throw(<<failmsg, r.msg>>)
                      ELSE _handleResponse(r))
        /\ sinceLogin' = sinceLogin \cup {req.cookie}

\* if (this._isUseridInvalid()) throw new OtterAIException('userid is invalid')
Refuse(name, args) ==
    /\ op' = Done(name, args, NotAuthenticated)
    /\ netlog' = <<>>
    /\ UNCHANGED sinceLogin

Gated(name, args, req, failmsg) ==
    /\ CanStart
    /\ IF _isUseridInvalid(userid) THEN Refuse(name, args)
       ELSE Call(name, args, req, failmsg)
    /\ UNCHANGED <<authVars, logins200, files, serverVars>>

Ungated(name, args, req, failmsg) ==
    /\ CanStart
    /\ Call(name, args, req, failmsg)
    /\ UNCHANGED <<authVars, logins200, files, serverVars>>

SpeechIds == { <<"id1">> }

\* fault variant: the header is filled from the sid cookie
CsrfHeader_fromSid == JarGet(cookies, <<"sid">>)

CsrfHeader == JarGet(cookies, <<"csrftoken">>)    \* this.cookies.csrftoken

getUser ==
    Ungated("getUser", NoArgs, SessionReq("call", "user", "GET", NoArgs),
            "Get user failed")

getSpeakers ==
    Gated("getSpeakers", NoArgs,
          SessionReq("call", "speakers", "GET", [userid |-> userid]),
          "Get speakers failed")

getSpeeches ==
    \E pageSize \in {1, 45} :
        Gated("getSpeeches", [pageSize |-> pageSize],
              SessionReq("call", "speeches", "GET",
                         [userid |-> userid, page_size |-> pageSize, source |-> "owned"]),
              "Get speeches failed")

getSpeech ==
    \E id \in SpeechIds :
        Gated("getSpeech", [speechId |-> id],
              SessionReq("call", "speech", "GET", [userid |-> userid, otid |-> id]),
              "Get speech failed")

querySpeech ==
    \E id \in SpeechIds :
        Ungated("querySpeech", [speechId |-> id],
                SessionReq("call", "advanced_search", "GET", [otid |-> id]),
                "Query speech failed")

moveToTrashBin ==
    \E id \in SpeechIds :
        Gated("moveToTrashBin", [speechId |-> id],
              SessionReq("call", "move_to_trash_bin", "POST",
                         [userid |-> userid, csrf |-> CsrfHeader, otid |-> id]),
              "Move to trash bin failed")

createSpeaker ==
    Gated("createSpeaker", NoArgs,
          SessionReq("call", "create_speaker", "POST",
                     [userid |-> userid, csrf |-> CsrfHeader]),
          "Create speaker failed")

getNotificationSettings ==
    Ungated("getNotificationSettings", NoArgs,
            SessionReq("call", "get_notification_settings", "GET", NoArgs),
            "Get notification settings failed")

listGroups ==
    Gated("listGroups", NoArgs,
          SessionReq("call", "list_groups", "GET", [userid |-> userid]),
          "List groups failed")

getFolders ==
    Gated("getFolders", NoArgs,
          SessionReq("call", "folders", "GET", [userid |-> userid]),
          "Get folders failed")

\* fault variant: the stub first tests the userid like the other operations
NotImplemented_afterGuard(name, msg) ==
    /\ CanStart
    /\ IF _isUseridInvalid(userid) THEN Refuse(name, NoArgs)
       ELSE /\ op' = Done(name, NoArgs, Throw(<<msg>>))
            /\ netlog' = <<>>
            /\ UNCHANGED sinceLogin
    /\ UNCHANGED <<authVars, logins200, files, serverVars>>

\* throw new OtterAIException('... not implemented yet')
NotImplemented(name, msg) ==
    /\ CanStart
    /\ op' = Done(name, NoArgs, Throw(<<msg>>))
    /\ netlog' = <<>>
    /\ UNCHANGED <<authVars, sinceLogin, logins200, files, serverVars>>

speechStart == NotImplemented("speechStart", "Speech start not implemented yet")

stopSpeech == NotImplemented("stopSpeech", "Stop speech not implemented yet")

-----------------------------------------------------------------------------
(* uploadSpeech, lines 1192-1282.  One action per await: the call up to    *)
(* its first request, then the continuation that runs on each response.    *)

Num(v) == [type |-> "number", v |-> v]
Str(v) == [type |-> "string", v |-> v]
UndefVal == [type |-> "undefined", v |-> "undefined"]

\* String(x): a number becomes its decimal text, undefined becomes "undefined"
StringOf(x) == Str(x.v)

\* obj[key] of an object held as insertion-ordered <<key, value>> pairs
ObjGet(obj, key) ==
    IF \E i \in 1..Len(obj) : obj[i][1] = key
    THEN (CHOOSE p \in {obj[i] : i \in 1..Len(obj)} : p[1] = key)[2]
    ELSE UndefVal

\* delete obj[key]
ObjDelete(obj, key) == SelectSeq(obj, LAMBDA p : p[1] # key)

ObjKeys(obj) == {obj[i][1] : i \in 1..Len(obj)}

\* responseJson.data of step 1: the presigned-POST parameters
ParamsChoices ==
    { << <<"key", Str("k")>>, <<"success_action_status", Num("201")>>,
         <<"form_action", Str("url")>>, <<"policy", Str("p")>> >>,
      << <<"key", Str("k")>>, <<"success_action_status", Str("201")>>,
         <<"form_action", Str("url")>> >>,
      << <<"key", Str("k")>>, <<"form_action", Str("url")>> >>,
      << <<"success_action_status", Num("201")>>, <<"key", Str("k")>> >> }

UploadParamsResponses ==
    {TransportFailure}
    \cup {[kind |-> "resp", status |-> 200, data |-> [present |-> TRUE, data |-> p]] :
            p \in ParamsChoices}
    \cup {[kind |-> "resp", status |-> 200, data |-> [present |-> FALSE, data |-> <<>>]],
          [kind |-> "resp", status |-> 403, data |-> [present |-> FALSE, data |-> <<>>]],
          [kind |-> "resp", status |-> 201, data |-> [present |-> TRUE,
              data |-> << <<"key", Str("k")>>, <<"form_action", Str("url")>> >>]]}

PreflightResponses ==
    {TransportFailure}
    \cup {[kind |-> "resp", status |-> s, data |-> [tag |-> "body"]] : s \in {200, 201, 403}}

\* the object store's answer: XML with or without a PostResponse element
StoreResponses ==
    {TransportFailure}
    \cup {[kind |-> "resp", status |-> s, data |-> [post |-> x, bucket |-> "b", key |-> "k"]] :
            s \in {200, 201, 403}, x \in BOOLEAN}

\* fault variants: a preflight that is never refused, a store check that takes any 2xx
PreflightOk_always(status) == status >= 0
StoreOk_any2xx(status) == status >= 200 /\ status < 300

ParamsOk(status) == status = 200       \* line 1207
PreflightOk(status) == status = 200    \* line 1225
StoreOk(status) == status = 201        \* line 1253

\* lines 1233-1245: the fields appended to the multipart form, in order
FormFields(paramsData, fileName) ==
    LET coerced == JarPut(paramsData, "success_action_status",
                          StringOf(ObjGet(paramsData, "success_action_status")))
        kept == ObjDelete(coerced, "form_action")
    IN  kept \o << <<"file", [type |-> "stream", v |-> fileName]>> >>

\* fault variant: the cause is rethrown as it came
UploadThrow_raw(cause) == Throw(<<cause>>)

UploadThrow(cause) == Throw(<<"Upload speech failed", cause>>)

Finish(result) == op' = [op EXCEPT !.pc = "done", !.result = result]

\* fault variant: an upload forgets the identity
UploadFrame_resetsUserid ==
    /\ userid' = Null
    /\ UNCHANGED <<cookies, cookieHeader, logins200, files, serverVars>>

UploadFrame == UNCHANGED <<authVars, logins200, files, serverVars>>

uploadSpeech ==
    /\ CanStart
    /\ IF _isUseridInvalid(userid)
       THEN Refuse("uploadSpeech", [fileName |-> "a.mp4"])
       ELSE LET req == SessionReq("params", "speech_upload_params", "GET",
                                  [userid |-> userid])
            IN  /\ op' = [name |-> "uploadSpeech", pc |-> "params",
                          args |-> [fileName |-> "a.mp4"], result |-> NoResult,
                          paramsData |-> [present |-> FALSE, data |-> <<>>]]
                /\ netlog' = <<req>>
                /\ sinceLogin' = sinceLogin \cup {req.cookie}
    /\ UploadFrame

uploadParamsResponse ==
    /\ op.name = "uploadSpeech" /\ op.pc = "params"
    /\ \E r \in UploadParamsResponses :
         LET log == Append(netlog, RespEvent("params", r))
             req == SessionReq("preflight", "speech-upload-prod", "OPTIONS",
                               [origin |-> "https://otter.ai"])
         IN  IF r.kind = "fail"
             THEN Finish(UploadThrow(r.msg)) /\ netlog' = log /\ UNCHANGED sinceLogin
             ELSE IF ~ParamsOk(r.status)
             THEN Finish(_handleResponse(r)) /\ netlog' = log /\ UNCHANGED sinceLogin
             ELSE /\ op' = [op EXCEPT !.pc = "preflight", !.paramsData = r.data]
                  /\ netlog' = Append(log, req)
                  /\ sinceLogin' = sinceLogin \cup {req.cookie}
    /\ UploadFrame

uploadPreflightResponse ==
    /\ op.name = "uploadSpeech" /\ op.pc = "preflight"
    /\ \E r \in PreflightResponses :
         LET log == Append(netlog, RespEvent("preflight", r))
         IN  IF r.kind = "fail"
             THEN Finish(UploadThrow(r.msg)) /\ netlog' = log
             ELSE IF ~PreflightOk(r.status)
             THEN Finish(_handleResponse(r)) /\ netlog' = log
             ELSE IF ~op.paramsData.present
             THEN \* paramsData.success_action_status on undefined: TypeError
                  Finish(UploadThrow("TypeError")) /\ netlog' = log
             ELSE /\ op' = [op EXCEPT !.pc = "store"]
                  /\ netlog' = Append(log,
                        AxiosReq("store", "speech-upload-prod", "POST",
                                 [form |-> FormFields(op.paramsData.data,
                                                      op.args.fileName)]))
    /\ UNCHANGED sinceLogin
    /\ UploadFrame

uploadStoreResponse ==
    /\ op.name = "uploadSpeech" /\ op.pc = "store"
    /\ \E r \in StoreResponses :
         LET log == Append(netlog, RespEvent("store", r))
             req == SessionReq("finish", "finish_speech_upload", "GET",
                               [bucket |-> r.data.bucket, key |-> r.data.key,
                                language |-> "en", country |-> "us",
                                userid |-> userid])
         IN  IF r.kind = "fail"
             THEN Finish(UploadThrow(r.msg)) /\ netlog' = log /\ UNCHANGED sinceLogin
             ELSE IF ~StoreOk(r.status)
             THEN Finish(_handleResponse(r)) /\ netlog' = log /\ UNCHANGED sinceLogin
             ELSE IF ~r.data.post
             THEN \* xmlData.PostResponse is undefined: TypeError
                  Finish(UploadThrow("TypeError")) /\ netlog' = log
                  /\ UNCHANGED sinceLogin
             ELSE /\ op' = [op EXCEPT !.pc = "finish"]
                  /\ netlog' = Append(log, req)
                  /\ sinceLogin' = sinceLogin \cup {req.cookie}
    /\ UploadFrame

uploadFinishResponse ==
    /\ op.name = "uploadSpeech" /\ op.pc = "finish"
    /\ \E r \in Responses :
         /\ netlog' = Append(netlog, RespEvent("finish", r))
         /\ IF r.kind = "fail" THEN Finish(UploadThrow(r.msg))
            ELSE Finish(_handleResponse(r))
    /\ UNCHANGED sinceLogin
    /\ UploadFrame

UploadNext ==
    \/ uploadSpeech
    \/ uploadParamsResponse
    \/ uploadPreflightResponse
    \/ uploadStoreResponse
    \/ uploadFinishResponse

-----------------------------------------------------------------------------
(* getAllSpeeches, lines 1062-1106 *)

PageCeiling == 200

\* fault variant: the page ceiling is not applied
Min_first(a, b) == a

Min(a, b) == IF a < b THEN a ELSE b

Speeches == {"s1", "s2"}

SpeechLists == UNION {[1..n -> Speeches] : n \in 0..MaxSpeeches}

\* data of a speeches response: with or without a speeches array
SpeechesResponses ==
    {TransportFailure}
    \cup {[kind |-> "resp", status |-> 200, data |-> [hasSpeeches |-> TRUE, speeches |-> l]] :
            l \in SpeechLists}
    \cup {[kind |-> "resp", status |-> 403, data |-> [hasSpeeches |-> TRUE, speeches |-> l]] :
            l \in {l \in SpeechLists : Len(l) < 2}}
    \cup {[kind |-> "resp", status |-> s, data |-> [hasSpeeches |-> FALSE, speeches |-> <<>>]] :
            s \in {200, 403}}

SpeechesReq(step, source, pageSize) ==
    SessionReq(step, "speeches", "GET",
               [userid |-> userid, page_size |-> pageSize, source |-> source])

\* what getSpeeches returns or throws for the response r (lines 1053-1059)
GetSpeechesOutcome(r) ==
    IF r.kind = "fail" THEN Throw(<<"Get speeches failed", r.msg>>)
    ELSE _handleResponse(r)

\* fault variant: the status of the page is not looked at
PageUsable_ignoreStatus(status, data) == data.hasSpeeches

PageUsable(status, data) == status = 200 /\ data.hasSpeeches     \* line 1078

\* fault variant: the note is set for any page at least as long as requested
GetAllSpeechesOutcome_atLeast(r, largePageSize) ==
    IF r.kind = "fail"
    THEN [kind |-> "throw", msg |-> <<"Get all speeches failed", "Get speeches failed", r.msg>>]
    ELSE IF ~(r.status = 200 /\ r.data.hasSpeeches)
    THEN [kind |-> "throw", msg |-> <<"Get all speeches failed", "Failed to get speeches",
                                      ToString(r.status)>>]
    ELSE [kind |-> "envelope", status |-> 200,
          data |-> [status |-> "OK",
                    speeches |-> r.data.speeches,
                    total_count |-> Len(r.data.speeches),
                    note |-> IF Len(r.data.speeches) >= largePageSize
                             THEN "Max page size reached - there may be more speeches"
                             ELSE "All available speeches retrieved"]]

\* what getAllSpeeches returns or throws once getSpeeches has answered
\* (lines 1076-1105); every throw inside the try is rewrapped at 1104
GetAllSpeechesOutcome(r, largePageSize) ==
    LET response == GetSpeechesOutcome(r)
    IN  IF response.kind = "throw"
        THEN Throw(<<"Get all speeches failed">> \o response.msg)
        ELSE IF ~PageUsable(response.status, response.data)
        THEN Throw(<<"Get all speeches failed", "Failed to get speeches",
                     ToString(response.status)>>)
        ELSE Envelope(200,
                 [status |-> "OK",
                  speeches |-> response.data.speeches,
                  total_count |-> Len(response.data.speeches),
                  note |-> IF Len(response.data.speeches) = largePageSize
                           THEN "Max page size reached - there may be more speeches"
                           ELSE "All available speeches retrieved"])

getAllSpeeches ==
    \E source \in {"owned", "shared"}, maxSpeeches \in {1, 2, 1000} :
        LET args == [source |-> source, maxSpeeches |-> maxSpeeches]
            largePageSize == Min(maxSpeeches, PageCeiling)
            req == SpeechesReq("call", source, largePageSize)
        IN  /\ CanStart
            /\ IF _isUseridInvalid(userid) THEN Refuse("getAllSpeeches", args)
               ELSE \E r \in SpeechesResponses :
                      /\ netlog' = <<req, RespEvent("call", r)>>
                      /\ op' = Done("getAllSpeeches", args,
                                    GetAllSpeechesOutcome(r, largePageSize))
                      /\ sinceLogin' = sinceLogin \cup {req.cookie}
            /\ UNCHANGED <<authVars, logins200, files, serverVars>>

-----------------------------------------------------------------------------
(* getAllSpeechesFromAllSources, lines 1108-1154.  One action per await.   *)

EmptyAll == [owned |-> <<>>, shared |-> <<>>, total |-> 0]

\* lines 1125-1134: the body of the loop once getAllSpeeches has settled
Absorb(all, source, outcome) ==
    IF outcome.kind = "envelope"
    THEN [all EXCEPT ![source] = outcome.data.speeches,
                     !.total = @ + Len(outcome.data.speeches)]
    ELSE [all EXCEPT ![source] = <<>>]

\* fault variant: the merge puts the shared items first
AggregateResult_sharedFirst(all) ==
    [kind |-> "envelope", status |-> 200,
     data |-> [status |-> "OK",
               speeches_by_source |-> all,
               all_speeches |-> all.shared \o all.owned,
               summary |-> [owned_count |-> Len(all.owned),
                            shared_count |-> Len(all.shared),
                            total_count |-> all.total]]]

\* lines 1137-1149
AggregateResult(all) ==
    Envelope(200,
        [status |-> "OK",
         speeches_by_source |-> all,
         all_speeches |-> all.owned \o all.shared,
         summary |-> [owned_count |-> Len(all.owned),
                      shared_count |-> Len(all.shared),
                      total_count |-> all.total]])

AggFrame == UNCHANGED <<authVars, logins200, files, serverVars>>

getAllSpeechesFromAllSources ==
    \E maxPerSource \in {2, 500} :
        LET args == [maxPerSource |-> maxPerSource]
            req == SpeechesReq("owned", "owned", Min(maxPerSource, PageCeiling))
        IN  /\ CanStart
            /\ IF _isUseridInvalid(userid)
               THEN Refuse("getAllSpeechesFromAllSources", args)
               ELSE /\ op' = [name |-> "getAllSpeechesFromAllSources", pc |-> "owned",
                              args |-> args, result |-> NoResult, all |-> EmptyAll]
                    /\ netlog' = <<req>>
                    /\ sinceLogin' = sinceLogin \cup {req.cookie}
            /\ AggFrame

\* fault variant: a failed owned fetch ends the loop
ownedResponse_abortOnFailure ==
    /\ op.name = "getAllSpeechesFromAllSources" /\ op.pc = "owned"
    /\ \E r \in SpeechesResponses :
         LET size == Min(op.args.maxPerSource, PageCeiling)
             outcome == GetAllSpeechesOutcome(r, size)
             all == Absorb(op.all, "owned", outcome)
             log == Append(netlog, RespEvent("owned", r))
             req == SpeechesReq("shared", "shared", size)
         IN  IF outcome.kind = "throw"
             THEN /\ op' = [op EXCEPT !.pc = "done", !.all = all,
                                      !.result = AggregateResult(all)]
                  /\ netlog' = log
                  /\ UNCHANGED sinceLogin
             ELSE /\ op' = [op EXCEPT !.pc = "shared", !.all = all]
                  /\ netlog' = Append(log, req)
                  /\ sinceLogin' = sinceLogin \cup {req.cookie}
    /\ AggFrame

ownedResponse ==
    /\ op.name = "getAllSpeechesFromAllSources" /\ op.pc = "owned"
    /\ \E r \in SpeechesResponses :
         LET size == Min(op.args.maxPerSource, PageCeiling)
             all == Absorb(op.all, "owned", GetAllSpeechesOutcome(r, size))
             log == Append(netlog, RespEvent("owned", r))
             req == SpeechesReq("shared", "shared", size)
         IN  IF _isUseridInvalid(userid)
             THEN \* getAllSpeeches("shared") throws at 1068, caught at 1131
                  /\ op' = [op EXCEPT !.pc = "done", !.all = Absorb(all, "shared", NotAuthenticated),
                                      !.result = AggregateResult(Absorb(all, "shared", NotAuthenticated))]
                  /\ netlog' = log
                  /\ UNCHANGED sinceLogin
             ELSE /\ op' = [op EXCEPT !.pc = "shared", !.all = all]
                  /\ netlog' = Append(log, req)
                  /\ sinceLogin' = sinceLogin \cup {req.cookie}
    /\ AggFrame

sharedResponse ==
    /\ op.name = "getAllSpeechesFromAllSources" /\ op.pc = "shared"
    /\ \E r \in SpeechesResponses :
         LET size == Min(op.args.maxPerSource, PageCeiling)
             all == Absorb(op.all, "shared", GetAllSpeechesOutcome(r, size))
         IN  /\ op' = [op EXCEPT !.pc = "done", !.all = all,
                                 !.result = AggregateResult(all)]
             /\ netlog' = Append(netlog, RespEvent("shared", r))
    /\ UNCHANGED sinceLogin
    /\ AggFrame

AggNext ==
    \/ getAllSpeeches
    \/ getAllSpeechesFromAllSources
    \/ ownedResponse
    \/ sharedResponse

-----------------------------------------------------------------------------
(* downloadSpeech, lines 1284-1325 *)

NameInputs == {NullStr, <<>>, <<"custom">>}
FormatInputs == { <<"txt">>, <<"txt", ",", "pdf">> }

DownloadResponses ==
    {TransportFailure}
    \cup {[kind |-> "resp", status |-> s, data |-> [tag |-> "bytes"]] : s \in {200, 201, 403}}

\* fault variant: a ?? b, which keeps an empty string
OrElse_nullish(a, b) == IF a \in {NullStr, UndefStr} THEN b ELSE a

\* a || b on strings
OrElse(a, b) == IF Truthy(a) THEN a ELSE b

\* line 1314
Filename(speechId, name, fileFormat) ==
    OrElse(name, speechId) \o <<".">>
        \o (IF Includes(fileFormat, ",") THEN <<"zip">> ELSE fileFormat)

\* fault variant: any 2xx answer is written to disk
DownloadOk_any2xx(status) == status \in 200..299

DownloadOk(status) == status = 200     \* line 1316

DownloadThrow(cause) == Throw(<<"Download speech failed">> \o cause)

\* fs.writeFileSync(filename, response.data) went through
WriteEvent(filename) == [t |-> "write", step |-> "call", filename |-> filename]

downloadSpeech ==
    \E speechId \in SpeechIds, name \in NameInputs, fileFormat \in FormatInputs :
        LET args == [speechId |-> speechId, name |-> name, fileFormat |-> fileFormat]
            req == SessionReq("call", "bulk_export", "POST",
                              [userid |-> userid, csrf |-> CsrfHeader,
                               formats |-> fileFormat, speech_otid_list |-> <<speechId>>])
            filename == Filename(speechId, name, fileFormat)
        IN  /\ CanStart
            /\ IF _isUseridInvalid(userid)
               THEN Refuse("downloadSpeech", args) /\ UNCHANGED files
               ELSE \E r \in DownloadResponses, writeFails \in BOOLEAN :
                      /\ netlog' = <<req, RespEvent("call", r)>>
                                    \o (IF r.kind = "resp" /\ DownloadOk(r.status)
                                           /\ ~writeFails
                                        THEN <<WriteEvent(filename)>> ELSE <<>>)
                      /\ sinceLogin' = sinceLogin \cup {req.cookie}
                      /\ IF r.kind = "fail"
                         THEN /\ op' = Done("downloadSpeech", args, DownloadThrow(<<r.msg>>))
                              /\ UNCHANGED files
                         ELSE IF ~DownloadOk(r.status)
                         THEN /\ op' = Done("downloadSpeech", args,
                                    DownloadThrow(<<"Got response status", ToString(r.status)>>))
                              /\ UNCHANGED files
                         ELSE IF writeFails
                         THEN \* fs.writeFileSync throws, caught at 1322
                              /\ op' = Done("downloadSpeech", args, DownloadThrow(<<"EACCES">>))
                              /\ UNCHANGED files
                         ELSE /\ files' = files \cup {filename}
                              /\ op' = Done("downloadSpeech", args,
                                            Envelope(r.status, [filename |-> filename]))
            /\ UNCHANGED <<authVars, logins200, serverVars>>


-----------------------------------------------------------------------------
(* The express server, lines 93-344.  Each route handler is one action,    *)
(* from the request to the answer it sends; the client call it awaits is   *)
(* part of it: a handler reads and writes the session map in one          *)
(* synchronous block, before or after its single await.  Time is counted   *)
(* in units of 12 hours.                                                   *)

MaxTime == 5         \* the clock stops here
MaxClients == 2      \* OtterAI instances the login handler constructs

SESSION_TIMEOUT == 2     \* 24 * 60 * 60 * 1000 ms, in units of 12 hours

\* generateSessionId(): 'sess_' and the base64 text of Date.now() and a
\* nine-digit base-36 random number.  No two calls are taken to return the
\* same id: the n-th OtterAI instance gets the id numbered n.
generateSessionId(n) == "sess_" \o ToString(n)

\* the ids a request can present: each is unknown until a login issues it
SessionIds == {generateSessionId(n) : n \in 1..MaxClients}

NoSessionId == "(no session-id)"      \* req.headers['session-id'] is undefined

EmptyMap == [k \in {} |-> 0]

MapSet(m, k, v) == [x \in DOMAIN m \cup {k} |-> IF x = k THEN v ELSE m[x]]

MapDelete(m, k) == [x \in DOMAIN m \ {k} |-> m[x]]

\* fault variant: a session is dropped already at the timeout
Expired_atTimeout(timestamp, t) == t - timestamp >= SESSION_TIMEOUT

\* Date.now() - sessionData.timestamp > SESSION_TIMEOUT
Expired(timestamp, t) == t - timestamp > SESSION_TIMEOUT

\* A timestamp is written only while the clock can still run past its expiry.
CanStamp == now + SESSION_TIMEOUT < MaxTime

\* what a handler run leaves behind: the route, the session-id it was given,
\* the HTTP status it answered, the session id it issued, how the session-id
\* resolved, the client instance it constructed, what the client's login
\* returned, the calls it made on client instances, and the session ids it
\* deleted from the map
Handled(route, sid, status, issued, found, client, loginStatus, calls) ==
    [route |-> route, sessionId |-> sid, status |-> status,
     issued |-> issued, found |-> found, client |-> client, login |-> loginStatus,
     calls |-> calls, deleted |-> {}]

Deleting(h, ids) == [h EXCEPT !.deleted = ids]

NothingHandled == [route |-> "none", sessionId |-> NoSessionId, status |-> 0,
                   issued |-> NoSessionId, found |-> "none", client |-> 0,
                   login |-> "none", calls |-> <<>>, deleted |-> {}]

\* no handler run is waiting for its answer to go out
Idle == handled = NothingHandled

\* res.json(...) / the callback returns
handlerReturns ==
    /\ ~Idle
    /\ handled' = NothingHandled
    /\ UNCHANGED <<sessions, now, nextInst, clientVars>>

\* Date.now() advances
tick ==
    /\ now < MaxTime
    /\ now' = now + 1
    /\ UNCHANGED <<sessions, nextInst, handled, clientVars>>

\* setInterval(cleanupExpiredSessions, 60 * 60 * 1000)
cleanupExpiredSessions ==
    /\ Idle
    /\ sessions' = [k \in {x \in DOMAIN sessions : ~Expired(sessions[x].timestamp, now)}
                      |-> sessions[k]]
    /\ handled' = Deleting(Handled("cleanup", NoSessionId, 0, NoSessionId, "none", 0,
                                    "none", <<>>),
                            {x \in DOMAIN sessions : Expired(sessions[x].timestamp, now)})
    /\ UNCHANGED <<now, nextInst, clientVars>>

\* fault variant: a live session keeps its old timestamp
getOtterInstance_noRefresh(sessionId) ==
    IF sessionId \notin DOMAIN sessions
    THEN [found |-> "missing", sessions |-> sessions]
    ELSE IF Expired(sessions[sessionId].timestamp, now)
    THEN [found |-> "expired", sessions |-> MapDelete(sessions, sessionId)]
    ELSE [found |-> "live", sessions |-> sessions]

\* getOtterInstance(sessionId): whether it throws, and the map it leaves
getOtterInstance(sessionId) ==
    IF sessionId \notin DOMAIN sessions
    THEN [found |-> "missing", sessions |-> sessions]
    ELSE IF Expired(sessions[sessionId].timestamp, now)
    THEN [found |-> "expired", sessions |-> MapDelete(sessions, sessionId)]
    ELSE [found |-> "live",
          sessions |-> [sessions EXCEPT ![sessionId].timestamp = now]]

\* new OtterAI()
NewOtterAI(inst) ==
    [inst |-> inst, userid |-> Null, cookies |-> <<>>, cookieHeader |-> NoHeader]

\* what otter.login returns or throws when the remote side answers r
LoginResult(r) ==
    IF r.kind = "fail" THEN Throw(<<"Login failed", r.msg>>)
    ELSE IF LoginOk(r.status) /\ r.data.null THEN Throw(<<"Login failed", "TypeError">>)
    ELSE _handleResponse(r)

\* the instance after that login
AfterLogin(otter, r) ==
    IF r.kind = "resp" /\ LoginOk(r.status) /\ ~r.data.null
    THEN [otter EXCEPT !.userid = r.data.userid,
                       !.cookies = _extractCookies(r.setCookie),
                       !.cookieHeader = _setCookieHeader(_extractCookies(r.setCookie),
                                                         otter.cookieHeader)]
    ELSE otter

LongText == <<"(201 characters)">>

Usernames == {UndefStr, <<>>, <<"alice">>, LongText}
Passwords == {UndefStr, <<"secret">>, LongText}

MaxCredentialLength == 200

Length(text) == IF text = LongText THEN 201 ELSE Len(text)

ServerLoginResponses ==
    {r \in LoginResponses :
        r.kind = "resp" => /\ r.setCookie.entries \in { <<>>, << <<"sid", "=", "A">> >> }
                           /\ r.data.userid # "u2"}

ServerSpeechesResponses == {r \in SpeechesResponses : r.kind = "resp" => Len(r.data.speeches) = 1}

\* fault variant: any returned envelope opens a session
SessionGranted_anyEnvelope(loginResponse) == loginResponse.kind = "envelope"

\* loginResponse && loginResponse.status === 200
SessionGranted(loginResponse) ==
    loginResponse.kind = "envelope" /\ loginResponse.status = 200

LoginGhost(result) == IF result.kind = "throw" THEN "threw" ELSE ToString(result.status)

\* POST /api/auth/login
postLogin ==
    /\ Idle
    /\ \E username \in Usernames, password \in Passwords :
         IF ~Truthy(username) \/ ~Truthy(password)
            \/ Length(username) > MaxCredentialLength
            \/ Length(password) > MaxCredentialLength
         THEN /\ handled' = Handled("login", NoSessionId, 400, NoSessionId, "none", 0,
                                    "none", <<>>)
              /\ UNCHANGED <<sessions, nextInst>>
         ELSE /\ nextInst <= MaxClients
              /\ nextInst' = nextInst + 1
              /\ \E r \in ServerLoginResponses :
                   LET otter == AfterLogin(NewOtterAI(nextInst), r)
                       sessionId == generateSessionId(nextInst)
                       loginResponse == LoginResult(r)
                       calls == << [inst |-> nextInst, name |-> "login"] >>
                   IN  IF loginResponse.kind = "throw"
                       THEN /\ handled' = Handled("login", NoSessionId, 500, NoSessionId,
                                                  "none", nextInst, "threw", calls)
                            /\ UNCHANGED sessions
                       ELSE IF SessionGranted(loginResponse)
                       THEN /\ CanStamp
                            /\ sessions' = MapSet(sessions, sessionId,
                                                  [otter |-> otter, timestamp |-> now,
                                                   userId |-> otter.userid,
                                                   username |-> username])
                            /\ handled' = Handled("login", NoSessionId, 200, sessionId,
                                                  "none", nextInst,
                                                  LoginGhost(loginResponse), calls)
                       ELSE /\ handled' = Handled("login", NoSessionId, 401, NoSessionId,
                                                  "none", nextInst,
                                                  LoginGhost(loginResponse), calls)
                            /\ UNCHANGED sessions
    /\ UNCHANGED <<now, clientVars>>

\* the part the two GET handlers share: the session-id header and
\* getOtterInstance; `outcomes` are the possible results of the client call
\* the handler makes on a live session
Authenticated(route, sessionId, outcomes) ==
    /\ IF sessionId = NoSessionId
         THEN /\ handled' = Handled(route, sessionId, 401, NoSessionId, "none", 0,
                                    "none", <<>>)
              /\ UNCHANGED sessions
         ELSE LET got == getOtterInstance(sessionId)
              IN  /\ sessions' = got.sessions
                  /\ IF got.found # "live"
                     THEN \* getOtterInstance throws Error, caught by the handler
                          handled' = Deleting(Handled(route, sessionId, 500, NoSessionId,
                                                      got.found, 0, "none", <<>>),
                                              DOMAIN sessions \ DOMAIN got.sessions)
                     ELSE /\ CanStamp
                          /\ \E result \in outcomes :
                               handled' = Handled(route, sessionId,
                                                  IF result.kind = "throw" THEN 500
                                                  ELSE 200,
                                                  NoSessionId, got.found, 0, "none",
                                                  << [inst |-> sessions[sessionId].otter.inst,
                                                      name |-> route] >>)
    /\ UNCHANGED <<now, nextInst, clientVars>>

\* the outcomes of otter.getAllSpeechesFromAllSources()
AllSourcesOutcomes(otter) ==
    IF _isUseridInvalid(otter.userid) THEN {NotAuthenticated}
    ELSE LET size == Min(500, PageCeiling)
         IN  {AggregateResult(Absorb(Absorb(EmptyAll, "owned",
                                            GetAllSpeechesOutcome(r1, size)),
                                     "shared", GetAllSpeechesOutcome(r2, size))) :
                 r1 \in ServerSpeechesResponses, r2 \in ServerSpeechesResponses}

\* the outcomes of otter.getSpeech(speechId)
GetSpeechOutcomes(otter) ==
    IF _isUseridInvalid(otter.userid) THEN {NotAuthenticated}
    ELSE {IF r.kind = "fail" THEN Throw(<<"Get speech failed", r.msg>>)
          ELSE _handleResponse(r) : r \in Responses}

\* GET /api/speech-ids
getSpeechIds ==
    /\ Idle
    /\ \E sessionId \in SessionIds \cup {NoSessionId} :
         Authenticated("speech-ids", sessionId,
                       IF sessionId \in DOMAIN sessions
                       THEN AllSourcesOutcomes(sessions[sessionId].otter) ELSE {})

\* GET /api/transcript/:speechId
getTranscript ==
    /\ Idle
    /\ \E sessionId \in SessionIds \cup {NoSessionId} :
         Authenticated("transcript", sessionId,
                       IF sessionId \in DOMAIN sessions
                       THEN GetSpeechOutcomes(sessions[sessionId].otter) ELSE {})

\* fault variant: logout answers success and keeps the session
postLogout_keepsSession ==
    /\ Idle
    /\ \E sessionId \in SessionIds \cup {NoSessionId} :
         handled' = Handled("logout", sessionId, 200, NoSessionId, "none", 0, "none", <<>>)
    /\ UNCHANGED <<sessions, now, nextInst, clientVars>>

\* POST /api/auth/logout
postLogout ==
    /\ Idle
    /\ \E sessionId \in SessionIds \cup {NoSessionId} :
         /\ sessions' = IF sessionId \in DOMAIN sessions
                        THEN MapDelete(sessions, sessionId) ELSE sessions
         /\ handled' = Deleting(Handled("logout", sessionId, 200, NoSessionId, "none", 0,
                                        "none", <<>>),
                                DOMAIN sessions \cap {sessionId})
    /\ UNCHANGED <<now, nextInst, clientVars>>

-----------------------------------------------------------------------------
(* Initial state: the constructor, lines 923-931 *)

Init ==
    /\ userid = Null
    /\ cookies = <<>>
    /\ cookieHeader = NoHeader
    /\ op = NoCall
    /\ netlog = <<>>
    /\ sinceLogin = {}
    /\ logins200 = 0
    /\ files = {}
    /\ sessions = EmptyMap
    /\ now = 0
    /\ nextInst = 1
    /\ handled = NothingHandled

SimpleNext ==
    \/ login
    \/ getUser
    \/ getSpeakers
    \/ getSpeeches
    \/ getSpeech
    \/ querySpeech
    \/ moveToTrashBin
    \/ createSpeaker
    \/ getNotificationSettings
    \/ listGroups
    \/ getFolders
    \/ speechStart
    \/ stopSpeech

Next == SimpleNext \/ UploadNext \/ AggNext \/ downloadSpeech \/ callerResumes

Spec == Init /\ [][Next]_vars

\* A second caller's login on the same instance settles while an
\* uploadSpeech is between two of its awaits: the continuation of login
\* (lines 988-997) runs as one synchronous block.
concurrentLogin ==
    /\ op.name = "uploadSpeech"
    /\ op.pc # "done"
    /\ \E r \in LoginResponses :
         IF r.kind = "resp" /\ LoginOk(r.status) /\ ~r.data.null
         THEN /\ userid' = r.data.userid
              /\ cookies' = _extractCookies(r.setCookie)
              /\ cookieHeader' = _setCookieHeader(cookies', cookieHeader)
              /\ sinceLogin' = {}
              /\ logins200' = IF logins200 < MaxLogins THEN logins200 + 1 ELSE logins200
         ELSE UNCHANGED <<authVars, sinceLogin, logins200>>
    /\ UNCHANGED <<op, netlog, files, serverVars>>

RaceNext ==
    \/ login
    \/ UploadNext
    \/ concurrentLogin
    \/ callerResumes

\* calls on one instance are not serialized
SpecRace == Init /\ [][RaceNext]_vars

ServerNext ==
    \/ postLogin
    \/ getSpeechIds
    \/ getTranscript
    \/ postLogout
    \/ cleanupExpiredSessions
    \/ tick
    \/ handlerReturns

SpecServer == Init /\ [][ServerNext]_vars

\* Time passes; every handler run ends; and the interval timer's callback,
\* due every hour, runs whenever the event loop is free of handler runs,
\* which it is again and again.
SpecServerFair ==
    SpecServer /\ WF_vars(tick) /\ WF_vars(handlerReturns)
               /\ SF_vars(cleanupExpiredSessions)

-----------------------------------------------------------------------------
(* Properties *)

GatedOps ==
    {"getSpeakers", "getSpeeches", "getAllSpeeches", "getAllSpeechesFromAllSources",
     "getSpeech", "uploadSpeech", "downloadSpeech", "moveToTrashBin", "createSpeaker",
     "listGroups", "getFolders"}

\* C1: on a client on which no login has returned status 200, every
\* identity-gated operation ends at once with the 'userid is invalid'
\* exception and has issued no network call.
C1_UnauthenticatedRefused ==
    (logins200 = 0 /\ op.name \in GatedOps)
        => (op.pc = "done" /\ op.result = NotAuthenticated /\ netlog = <<>>)

\* a gated call refused after earlier requests (failed logins, ungated calls)
C1_Witness ==
    /\ logins200 = 0
    /\ sinceLogin # {}
    /\ op.name = "uploadSpeech"
    /\ op.result = NotAuthenticated

\* the Cookie header a request should carry for a jar
HeaderFor(jar) == IF jar = <<>> THEN NoHeader ELSE Serialize(jar)

\* C2: after a second status-200 login every request carries only the
\* cookies of that login's response: no header when it set none, the
\* serialization of its cookies otherwise.
C2_SecondLoginReplacesCookies ==
    logins200 >= 2 => \A h \in sinceLogin : h = HeaderFor(cookies)

\* C3 as stated: after any status-200 login the jar is non-empty and every
\* later request carries the serialization of the current jar.
C3_JarNonEmptyAfterLogin ==
    logins200 >= 1
        => (cookies # <<>> /\ \A h \in sinceLogin : h = Serialize(cookies))

\* a Set-Cookie entry whose name and value are both non-empty
UsableEntry(entry) ==
    LET nameValue == SplitFirst(entry, ";")
    IN  /\ Truthy(SplitFirst(nameValue, "="))
        /\ Truthy(SplitSecond(nameValue, "="))

HasUsableEntry(setCookie) ==
    setCookie.present /\ \E i \in 1..Len(setCookie.entries) : UsableEntry(setCookie.entries[i])

LoginReturned200 ==
    op.name = "login" /\ op.result.kind = "envelope" /\ op.result.status = 200

\* C3 amended: a status-200 login leaves the jar non-empty exactly when its
\* response carries a Set-Cookie entry with a non-empty name and value, and
\* while the jar is non-empty the installed Cookie header and the header of
\* every request sent since that login equal the serialization of the jar.
C3_HeaderIsSerializedJar ==
    /\ LoginReturned200 => (cookies # <<>> <=> HasUsableEntry(netlog[2].r.setCookie))
    /\ (logins200 >= 1 /\ cookies # <<>>)
          => (cookieHeader = Serialize(cookies)
              /\ \A h \in sinceLogin : h = Serialize(cookies))

\* a request sent after a login that set two cookies
C3_Witness ==
    /\ logins200 >= 1
    /\ Len(cookies) = 2
    /\ op.name = "getSpeakers"
    /\ op.result.kind = "envelope"
    /\ sinceLogin = {Serialize(cookies)}

\* C4: a login answered with a status other than 200 returns the envelope of
\* that response and leaves userid, the jar and the Cookie header unchanged.
C4_RejectedLoginChangesNothing ==
    [][(op = NoCall /\ op'.name = "login"
            /\ netlog'[2].r.kind = "resp" /\ netlog'[2].r.status # 200)
        => (/\ userid' = userid
            /\ cookies' = cookies
            /\ cookieHeader' = cookieHeader
            /\ op'.result = [kind |-> "envelope", status |-> netlog'[2].r.status,
                             data |-> netlog'[2].r.data])]_vars

\* a rejected login on a client that was authenticated before
C4_Witness ==
    /\ op.name = "login"
    /\ netlog[2].r.kind = "resp"
    /\ netlog[2].r.status = 403
    /\ netlog[2].r.setCookie.present
    /\ logins200 >= 1
    /\ userid = "u2"
    /\ cookies # <<>>

\* the status each upload step must see for the pipeline to go on
ExpectedStatus == [params |-> 200, preflight |-> 200, store |-> 201]

Refused(e) ==
    /\ e.t = "resp"
    /\ e.r.kind = "resp"
    /\ e.step \in DOMAIN ExpectedStatus
    /\ e.r.status # ExpectedStatus[e.step]

\* C5: in uploadSpeech a response whose status is not the step's success
\* status is the last network event of the call, and the call returns that
\* response's envelope.
C5_UploadShortCircuits ==
    op.name = "uploadSpeech" =>
        \A i \in 1..Len(netlog) :
            Refused(netlog[i]) =>
                /\ i = Len(netlog)
                /\ op.pc = "done"
                /\ op.result = [kind |-> "envelope", status |-> netlog[i].r.status,
                                data |-> netlog[i].r.data]

\* the object store answers the multipart POST with 200
C5_Witness ==
    /\ op.name = "uploadSpeech"
    /\ op.pc = "done"
    /\ Len(netlog) = 6
    /\ netlog[6].step = "store"
    /\ netlog[6].r.kind = "resp"
    /\ netlog[6].r.status = 200
    /\ op.result.kind = "envelope"
    /\ op.result.status = 200

Pipeline ==
    << [step |-> "params", ep |-> "speech_upload_params", method |-> "GET"],
       [step |-> "preflight", ep |-> "speech-upload-prod", method |-> "OPTIONS"],
       [step |-> "store", ep |-> "speech-upload-prod", method |-> "POST"],
       [step |-> "finish", ep |-> "finish_speech_upload", method |-> "GET"] >>

Accepted(e, step) ==
    /\ e.t = "resp"
    /\ e.step = step
    /\ e.r.kind = "resp"
    /\ e.r.status = ExpectedStatus[step]

\* C6: the requests of one uploadSpeech call are a prefix of params GET,
\* preflight OPTIONS, multipart POST, finish GET; each one after the first
\* directly follows the previous step's response with its success status;
\* and once the finish call is answered the call returns that envelope.
C6_UploadStepsInOrder ==
    op.name = "uploadSpeech" =>
        LET reqs == Requests(netlog)
        IN  /\ Len(reqs) <= Len(Pipeline)
            /\ \A k \in 1..Len(reqs) :
                   /\ reqs[k].step = Pipeline[k].step
                   /\ reqs[k].ep = Pipeline[k].ep
                   /\ reqs[k].method = Pipeline[k].method
            /\ \A i \in 1..Len(netlog) :
                   netlog[i].t = "req" =>
                       \/ i = 1 /\ netlog[i].step = "params"
                       \/ /\ i > 1
                          /\ \E k \in 2..Len(Pipeline) :
                                /\ netlog[i].step = Pipeline[k].step
                                /\ Accepted(netlog[i-1], Pipeline[k-1].step)
            /\ \A i \in 1..Len(netlog) :
                   (netlog[i].t = "resp" /\ netlog[i].step = "finish"
                        /\ netlog[i].r.kind = "resp")
                     => (/\ op.pc = "done"
                         /\ i = Len(netlog)
                         /\ op.result = [kind |-> "envelope",
                                         status |-> netlog[i].r.status,
                                         data |-> netlog[i].r.data])

\* all four steps ran and the finish call was answered 403
C6_Witness ==
    /\ op.name = "uploadSpeech"
    /\ op.pc = "done"
    /\ Len(Requests(netlog)) = 4
    /\ op.result.kind = "envelope"
    /\ op.result.status = 403

\* C7: the multipart form of step 3 holds exactly the step-1 parameters
\* without form_action, plus the file, and a success_action_status field in
\* it is a string.
C7_FormIsParamsWithoutFormAction ==
    op.name = "uploadSpeech" =>
        \A i \in 1..Len(netlog) :
            (netlog[i].t = "req" /\ netlog[i].step = "store") =>
                LET form == netlog[i].more.form
                    params == netlog[2].r.data.data
                IN  /\ ObjKeys(form) = (ObjKeys(params) \ {"form_action"}) \cup {"file"}
                    /\ \A k \in 1..Len(form) :
                          form[k][1] = "success_action_status"
                              => form[k][2].type = "string"

\* the items the fetch of one source delivered: the speeches array of a
\* status-200 response, nothing otherwise
Fetched(step) ==
    IF \E i \in 1..Len(netlog) :
          /\ netlog[i].t = "resp" /\ netlog[i].step = step
          /\ netlog[i].r.kind = "resp" /\ netlog[i].r.status = 200
          /\ netlog[i].r.data.hasSpeeches
    THEN (CHOOSE e \in {netlog[i] : i \in 1..Len(netlog)} :
              e.t = "resp" /\ e.step = step).r.data.speeches
    ELSE <<>>

AggregateReturned ==
    op.name = "getAllSpeechesFromAllSources" /\ op.pc = "done" /\ netlog # <<>>

\* C8: in the result of getAllSpeechesFromAllSources the merged list is as
\* long as owned_count + shared_count, which equals total_count; its first
\* owned_count entries are the owned items in arrival order and the rest are
\* the shared items in arrival order.
C8_MergedIsOwnedThenShared ==
    (AggregateReturned /\ op.result.kind = "envelope") =>
        LET d == op.result.data
            n == d.summary.owned_count
        IN  /\ Len(d.all_speeches) = n + d.summary.shared_count
            /\ Len(d.all_speeches) = d.summary.total_count
            /\ n = Len(Fetched("owned"))
            /\ SubSeq(d.all_speeches, 1, n) = Fetched("owned")
            /\ SubSeq(d.all_speeches, n + 1, Len(d.all_speeches)) = Fetched("shared")

\* two owned items in one order, then a different shared item
C8_Witness ==
    /\ AggregateReturned
    /\ op.result.kind = "envelope"
    /\ op.result.data.all_speeches = <<"s2", "s1", "s2">>
    /\ op.result.data.summary.owned_count = 2

FetchFailed(step) ==
    \E i \in 1..Len(netlog) :
        /\ netlog[i].t = "resp" /\ netlog[i].step = step
        /\ (netlog[i].r.kind = "fail" \/ netlog[i].r.status # 200)

Other(source) == IF source = "owned" THEN "shared" ELSE "owned"

\* C9: on an authenticated client getAllSpeechesFromAllSources returns
\* status 200 whatever the source fetches did; a source whose fetch threw or
\* was answered with a non-200 status contributes nothing, and the other
\* source's items are the ones its own fetch delivered.
C9_SourceFailureIsAbsorbed ==
    AggregateReturned =>
        /\ op.result.kind = "envelope"
        /\ op.result.status = 200
        /\ \A source \in {"owned", "shared"} :
              FetchFailed(source) =>
                  /\ op.result.data.speeches_by_source[source] = <<>>
                  /\ op.result.data.summary[source \o "_count"] = 0
                  /\ op.result.data.speeches_by_source[Other(source)]
                        = Fetched(Other(source))
                  /\ op.result.data.summary[Other(source) \o "_count"]
                        = Len(Fetched(Other(source)))

\* the shared fetch fails in transport after two owned items arrived
C9_Witness ==
    /\ AggregateReturned
    /\ Len(netlog) = 4
    /\ netlog[4].r.kind = "fail"
    /\ op.result.kind = "envelope"
    /\ op.result.data.summary.owned_count = 2
    /\ op.result.data.summary.shared_count = 0

DownloadReturned ==
    op.name = "downloadSpeech" /\ op.pc = "done" /\ op.result.kind = "envelope"

Extension(fileFormat) == IF Includes(fileFormat, ",") THEN <<"zip">> ELSE fileFormat

\* C10 as stated: the file written and reported is (name ?? speechId), a
\* dot, and "zip" for a list of formats or else the format: speechId stands
\* in only for a null or absent name.
C10_FilenameUsesNullish ==
    DownloadReturned =>
        LET a == op.args
            base == IF a.name \in {NullStr, UndefStr} THEN a.speechId ELSE a.name
        IN  /\ op.result.data.filename = base \o <<".">> \o Extension(a.fileFormat)
            /\ op.result.data.filename \in files

\* C10 amended: the file written and reported is (name || speechId), a dot,
\* and "zip" when the format string contains a comma or else the format
\* string: speechId stands in for a null, absent or empty name.
C10_FilenameUsesOr ==
    DownloadReturned =>
        LET a == op.args
            base == IF a.name \in {NullStr, UndefStr, <<>>} THEN a.speechId ELSE a.name
        IN  /\ op.result.data.filename = base \o <<".">> \o Extension(a.fileFormat)
            /\ op.result.data.filename \in files
            /\ (a.name = NullStr /\ a.fileFormat = <<"txt", ",", "pdf">>)
                  => op.result.data.filename = <<"id1", ".", "zip">>
            /\ (a.name = <<"custom">> /\ a.fileFormat = <<"txt">>)
                  => op.result.data.filename = <<"custom", ".", "txt">>

\* a download with an empty name
C10_Witness ==
    /\ DownloadReturned
    /\ op.args.name = <<>>
    /\ op.result.data.filename = <<"id1", ".", "txt">>
    /\ <<"id1", ".", "txt">> \in files

-----------------------------------------------------------------------------
(* Progress.  this.session is created with timeout: 30000 (line 925), so   *)
(* a request sent through it is answered or fails within that time: the    *)
(* continuation of each such await eventually runs.  The multipart POST    *)
(* at 1248 goes through the bare axios module, whose default is no         *)
(* timeout, and passes none: nothing obliges its await ever to settle.     *)

SessionAwaits ==
    /\ WF_vars(uploadParamsResponse)
    /\ WF_vars(uploadPreflightResponse)
    /\ WF_vars(uploadFinishResponse)
    /\ WF_vars(ownedResponse)
    /\ WF_vars(sharedResponse)

SpecTimeout == Init /\ [][Next]_vars /\ SessionAwaits

\* C15: every request is bounded by the per-request timeout, so every call
\* that has started eventually settles, also when the remote side never
\* answers.
C15_EveryCallSettles == (op.pc # "done") ~> (op.pc = "done")

GetAllReturned ==
    op.name = "getAllSpeeches" /\ op.pc = "done" /\ op.result.kind = "envelope"

\* the page size getAllSpeeches asks for
RequestedPageSize(maxSpeeches) == IF maxSpeeches < 200 THEN maxSpeeches ELSE 200

\* C11: getAllSpeeches sets the note 'there may be more speeches' exactly
\* when the page it received holds as many speeches as it asked for,
\* min(maxSpeeches, 200); otherwise the note says all were retrieved.
C11_TruncationNoteIffFullPage ==
    GetAllReturned =>
        LET page == netlog[2].r.data.speeches
            full == Len(page) = RequestedPageSize(op.args.maxSpeeches)
        IN  /\ full => op.result.data.note
                          = "Max page size reached - there may be more speeches"
            /\ ~full => op.result.data.note = "All available speeches retrieved"

\* a full page of two speeches is flagged
C11_Witness ==
    /\ GetAllReturned
    /\ op.args.maxSpeeches = 2
    /\ Len(netlog[2].r.data.speeches) = 2
    /\ op.result.data.note = "Max page size reached - there may be more speeches"

StubMessage(name) ==
    IF name = "speechStart" THEN "Speech start not implemented yet"
    ELSE "Stop speech not implemented yet"

\* C14: a call of speechStart or stopSpeech, on an authenticated client or
\* not, settles at once with the 'not implemented' exception, sends no
\* request, and leaves userid, the cookie jar and the Cookie header as they
\* were.
C14_StubsFailImmediately ==
    [][(op = NoCall /\ op'.name \in {"speechStart", "stopSpeech"}) =>
          /\ op'.pc = "done"
          /\ op'.result = Throw(<<StubMessage(op'.name)>>)
          /\ netlog' = <<>>
          /\ UNCHANGED authVars
          /\ sinceLogin' = sinceLogin]_vars

\* both client states meet a stub: never logged in, and logged in
C14_Witness ==
    /\ op.name = "stopSpeech"
    /\ op.result = Throw(<<"Stop speech not implemented yet">>)
    /\ userid \in UserIds
    /\ netlog = <<>>

C14_WitnessUnauthenticated ==
    /\ op.name = "speechStart"
    /\ op.result = Throw(<<"Speech start not implemented yet">>)
    /\ _isUseridInvalid(userid)

IsSpeechesReq(e, source) ==
    /\ e.t = "req" /\ e.ep = "speeches" /\ e.method = "GET"
    /\ e.more.source = source

IsResp(e, step) == e.t = "resp" /\ e.step = step

\* C20: on an authenticated client getAllSpeechesFromAllSources sends one
\* speeches request for owned, waits for its answer, then sends one for
\* shared, whether the owned fetch succeeded or failed; there is no other
\* request and the call returns after the shared answer.
C20_OwnedThenShared ==
    (op.name = "getAllSpeechesFromAllSources" /\ op.result # NotAuthenticated) =>
        /\ op.pc \in {"owned", "shared", "done"}
        /\ Len(netlog) = CASE op.pc = "owned" -> 1
                           [] op.pc = "shared" -> 3
                           [] op.pc = "done" -> 4
        /\ IsSpeechesReq(netlog[1], "owned")
        /\ Len(netlog) >= 3 =>
              /\ IsResp(netlog[2], "owned")
              /\ IsSpeechesReq(netlog[3], "shared")
        /\ Len(netlog) = 4 => IsResp(netlog[4], "shared")

\* the owned fetch failed and the shared fetch was made all the same
C20_Witness ==
    /\ AggregateReturned
    /\ Len(netlog) = 4
    /\ netlog[2].r.kind = "fail"
    /\ IsSpeechesReq(netlog[3], "shared")
    /\ netlog[4].r.kind = "resp" /\ netlog[4].r.status = 200

\* the last network event of the call, when it is an answer
LastAnswer == netlog[Len(netlog)]

\* the call settled on an answer whose status is outside 200..299
SettledOnNonSuccess ==
    /\ op.pc = "done"
    /\ netlog # <<>>
    /\ LastAnswer.t = "resp"
    /\ LastAnswer.r.kind = "resp"
    /\ LastAnswer.r.status \notin 200..299

PassedThrough ==
    op.result = [kind |-> "envelope", status |-> LastAnswer.r.status,
                 data |-> LastAnswer.r.data]

FailText ==
    [login |-> "Login failed", getUser |-> "Get user failed",
     getSpeakers |-> "Get speakers failed", getSpeeches |-> "Get speeches failed",
     getAllSpeeches |-> "Get all speeches failed",
     getAllSpeechesFromAllSources |-> "Get all speeches from all sources failed",
     getSpeech |-> "Get speech failed", querySpeech |-> "Query speech failed",
     uploadSpeech |-> "Upload speech failed",
     downloadSpeech |-> "Download speech failed",
     moveToTrashBin |-> "Move to trash bin failed",
     createSpeaker |-> "Create speaker failed",
     getNotificationSettings |-> "Get notification settings failed",
     listGroups |-> "List groups failed", getFolders |-> "Get folders failed"]

C12_WitnessDownload ==
    /\ SettledOnNonSuccess
    /\ op.name = "downloadSpeech"
    /\ op.result.kind = "throw"

\* some request of the call ended in a transport failure
TransportFailed ==
    \E i \in 1..Len(netlog) : netlog[i].t = "resp" /\ netlog[i].r.kind = "fail"

Settled == op.pc = "done" /\ op # NoCall

\* C13 as stated: a call in which a request failed in transport always ends
\* in the exception named for the operation, never in a returned envelope.
C13_TransportFailureAlwaysThrown ==
    (Settled /\ TransportFailed) =>
        /\ op.result.kind = "throw"
        /\ op.result.msg[1] = FailText[op.name]

\* C13 (amended): every call settles with an envelope or an OtterAIException;
\* a transport failure in login, in a single-request operation, in
\* getAllSpeeches, in downloadSpeech or in any step of uploadSpeech ends the
\* call with the exception whose message starts with that operation's
\* '<operation> failed' text and ends with the cause, while
\* getAllSpeechesFromAllSources absorbs it and returns a status-200 envelope;
\* the only exceptions without the operation's text are 'userid is invalid'
\* and the two 'not implemented' ones.
C13_TransportFailureByOperation ==
    Settled =>
        /\ op.result.kind \in {"envelope", "throw"}
        /\ TransportFailed =>
              IF op.name = "getAllSpeechesFromAllSources"
              THEN op.result.kind = "envelope" /\ op.result.status = 200
              ELSE /\ op.result.kind = "throw"
                   /\ op.result.msg[1] = FailText[op.name]
                   /\ op.result.msg[Len(op.result.msg)] = TransportFailure.msg
        /\ op.result.kind = "throw" =>
              \/ op.result = NotAuthenticated
              \/ op.name \in {"speechStart", "stopSpeech"}
                   /\ op.result = Throw(<<StubMessage(op.name)>>)
              \/ op.name \in DOMAIN FailText /\ op.result.msg[1] = FailText[op.name]

\* the multipart POST to the object store fails in transport
C13_Witness ==
    /\ Settled
    /\ op.name = "uploadSpeech"
    /\ netlog # <<>>
    /\ LastAnswer.step = "store"
    /\ LastAnswer.r.kind = "fail"
    /\ op.result = Throw(<<"Upload speech failed", "timeout">>)

\* the aggregate returns an envelope although a fetch failed in transport
C13_WitnessAbsorbed ==
    /\ Settled
    /\ op.name = "getAllSpeechesFromAllSources"
    /\ TransportFailed
    /\ op.result.kind = "envelope"

-----------------------------------------------------------------------------
(* Properties of the server *)

\* C16: GET /api/speech-ids and GET /api/transcript/:speechId answer a
\* session-id that is not in the map (never issued, logged out, cleaned up)
\* or that has expired with 401, and call no client instance.
C16_UnknownSessionIsUnauthorized ==
    (handled.route \in {"speech-ids", "transcript"}
        /\ handled.found \in {"missing", "expired"}) =>
        /\ handled.status = 401
        /\ handled.calls = <<>>

\* a run of the login handler
LoginHandled == Idle /\ handled'.route = "login"

\* C17: the login handler changes the session map exactly when the client's
\* login returned status 200.  Then it answers 200 and the session id it
\* issues maps to the instance it constructed for this login, which no
\* other session holds, and every other session is as before.  Otherwise
\* (validation failure: 400 and no instance; other status: 401; login
\* threw: 500) the map is unchanged and no session id is issued.
C17_SessionIffLoginReturned200 ==
    [][LoginHandled =>
          /\ (handled'.login = "200") <=> (sessions' # sessions)
          /\ handled'.login = "200" =>
                LET sessionId == handled'.issued
                IN  /\ handled'.status = 200
                    /\ sessionId \in SessionIds
                    /\ DOMAIN sessions' = DOMAIN sessions \cup {sessionId}
                    /\ handled'.client = nextInst
                    /\ sessions'[sessionId].otter.inst = handled'.client
                    /\ sessions'[sessionId].timestamp = now
                    /\ \A k \in DOMAIN sessions' \ {sessionId} :
                          /\ sessions'[k] = sessions[k]
                          /\ sessions'[k].otter.inst # handled'.client
          /\ handled'.login # "200" =>
                /\ handled'.issued = NoSessionId
                /\ handled'.status = CASE handled'.login = "none" -> 400
                                       [] handled'.login = "threw" -> 500
                                       [] OTHER -> 401
                /\ handled'.login = "none" => handled'.client = 0 /\ nextInst' = nextInst
      ]_vars

\* a second session is opened next to an existing one
C17_Witness ==
    /\ handled.route = "login"
    /\ handled.status = 200
    /\ handled.issued \in DOMAIN sessions
    /\ sessions[handled.issued].otter.inst = handled.client
    /\ Cardinality(DOMAIN sessions) = 2

\* a rejected login next to an existing session
C17_WitnessRejected ==
    /\ handled.route = "login"
    /\ handled.login = "403"
    /\ handled.status = 401
    /\ DOMAIN sessions # {}

\* a run of the cleanup timer
CleanupRan == Idle /\ handled'.route = "cleanup"

StampedAt(k, t) == k \in DOMAIN sessions /\ sessions[k].timestamp = t

\* the times at which a timestamp is written
Stamps == {t \in 0..MaxTime : t + SESSION_TIMEOUT < MaxTime}

\* C18: a run of cleanupExpiredSessions deletes exactly the sessions whose
\* timestamp lies more than SESSION_TIMEOUT before now and leaves the other
\* sessions, timestamps included, as they were; and with the clock running
\* and the timer firing, a session does not stay in the map with the same
\* timestamp for ever: it is accessed again or deleted.
C18_CleanupRemovesExpired ==
    /\ [][CleanupRan =>
             /\ DOMAIN sessions' = {k \in DOMAIN sessions :
                                       ~(now - sessions[k].timestamp > SESSION_TIMEOUT)}
             /\ \A k \in DOMAIN sessions' : sessions'[k] = sessions[k]
             /\ now' = now
         ]_vars
    /\ \A k \in SessionIds, t \in Stamps : StampedAt(k, t) ~> ~StampedAt(k, t)

\* one session is deleted while one exactly SESSION_TIMEOUT old is kept
C18_Witness ==
    /\ handled.route = "cleanup"
    /\ handled.deleted # {}
    /\ \E k \in DOMAIN sessions : now - sessions[k].timestamp = SESSION_TIMEOUT

\* every timestamp in the map was written at one of those times
StampsWritten == \A k \in DOMAIN sessions : sessions[k].timestamp \in Stamps

-----------------------------------------------------------------------------
(* Further properties of the client *)

\* C21: userid, the cookie jar and the Cookie header change only in a step
\* that is a login call answered with status 200; every other operation,
\* whatever its outcome, leaves the three as they were.
C21_OnlyLoginMutatesAuth ==
    [][(authVars' # authVars) =>
          /\ op = NoCall
          /\ op'.name = "login"
          /\ netlog'[2].r.kind = "resp"
          /\ netlog'[2].r.status = 200]_vars

\* an upload that threw after a login: the login's identity is still there
C21_Witness ==
    /\ op.name = "uploadSpeech"
    /\ op.pc = "done"
    /\ op.result.kind = "throw"
    /\ op.result # NotAuthenticated
    /\ userid \in UserIds
    /\ cookies # <<>>
    /\ cookieHeader = Serialize(cookies)

CsrfOps == {"createSpeaker", "moveToTrashBin", "downloadSpeech"}

\* the csrftoken entry of the jar, or undefined
CsrfOfJar ==
    IF \E i \in 1..Len(cookies) : cookies[i][1] = <<"csrftoken">>
    THEN (CHOOSE i \in 1..Len(cookies) : cookies[i][1] = <<"csrftoken">>)
    ELSE 0

\* C22: on an authenticated client createSpeaker, moveToTrashBin and
\* downloadSpeech send one request whose x-csrftoken header is the jar's
\* csrftoken cookie, and send it also when the jar has no such cookie (the
\* header value is then undefined).
C22_CsrfHeaderFromJar ==
    (op.name \in CsrfOps /\ op.result # NotAuthenticated) =>
        /\ Len(Requests(netlog)) = 1
        /\ netlog[1].t = "req"
        /\ netlog[1].more.csrf = IF CsrfOfJar = 0 THEN UndefStr
                                 ELSE cookies[CsrfOfJar][2]

\* the call goes out without a csrftoken cookie in the jar
C22_Witness ==
    /\ op.name \in CsrfOps
    /\ userid \in UserIds
    /\ CsrfOfJar = 0
    /\ Len(netlog) = 2
    /\ netlog[1].more.csrf = UndefStr

\* the call carries the jar's token
C22_WitnessToken ==
    /\ op.name = "createSpeaker"
    /\ Len(netlog) = 2
    /\ netlog[1].more.csrf = <<"T">>

\* the name and the value of a Set-Cookie entry: the text before the first
\* '=' and the text between the first '=' and the first ';'
EntryName(entry) == Trim(SplitFirst(SplitFirst(entry, ";"), "="))

EntryValue(entry) ==
    LET nameValue == SplitFirst(entry, ";")
        eq == FirstIdx(nameValue, "=")
    IN  IF eq = 0 THEN <<>> ELSE Trim(SubSeq(nameValue, eq + 1, Len(nameValue)))

\* C23: after a login answered with status 200 the jar holds exactly the
\* names of the Set-Cookie entries that have a name and a value, each mapped
\* to the value (the text between the first '=' and the first ';') of the
\* last entry with that name.
C23_JarHoldsEntryValues ==
    LoginReturned200 =>
        LET setCookie == netlog[2].r.setCookie
            entries == IF setCookie.present THEN setCookie.entries ELSE <<>>
            named == {i \in 1..Len(entries) :
                         EntryName(entries[i]) # <<>> /\ EntryValue(entries[i]) # <<>>}
            last == {i \in named :
                         \A j \in named : j > i => EntryName(entries[j]) # EntryName(entries[i])}
        IN  /\ JarNames(cookies) = {EntryName(entries[i]) : i \in named}
            /\ \A i \in last :
                   JarGet(cookies, EntryName(entries[i])) = EntryValue(entries[i])

ObjectStore == "speech-upload-prod"

\* C24: no request that uploadSpeech sends to the object store, the
\* preflight OPTIONS or the multipart POST, carries a Cookie header.
C24_NoCookiesToObjectStore ==
    \A i \in 1..Len(netlog) :
        (netlog[i].t = "req" /\ netlog[i].ep = ObjectStore) => netlog[i].cookie = NoHeader

Wrote(log) == \E i \in 1..Len(log) : log[i].t = "write"

\* C29: a file is written, created or overwritten, only by a downloadSpeech
\* call on an authenticated client whose request was answered with status
\* 200; a refused call, a transport failure or another status writes nothing.
C29_FileOnlyOnStatus200 ==
    [][/\ files' # files => Wrote(netlog')
       /\ (Wrote(netlog') /\ netlog' # netlog) =>
             /\ op'.name = "downloadSpeech"
             /\ ~_isUseridInvalid(userid)
             /\ netlog'[2].t = "resp"
             /\ netlog'[2].r.kind = "resp"
             /\ netlog'[2].r.status = 200
             /\ netlog'[3].filename \in files'
      ]_vars

\* a download answered 200 has written its file
C29_Witness ==
    /\ op.name = "downloadSpeech"
    /\ Wrote(netlog)
    /\ netlog[2].r.status = 200
    /\ op.result.data.filename \in files

\* a download answered 201 has written nothing
C29_WitnessNotWritten ==
    /\ op.name = "downloadSpeech"
    /\ Len(netlog) = 2
    /\ netlog[2].r.kind = "resp" /\ netlog[2].r.status = 201
    /\ files = {}

\* the userid parameter of the request of one step of the call, if sent
SentUserid(step) ==
    {netlog[i].more.userid : i \in {j \in 1..Len(netlog) :
                                       netlog[j].t = "req" /\ netlog[j].step = step}}

\* C25: with a login running concurrently on the same instance, the userid
\* sent with the finish call of an uploadSpeech is the userid sent with its
\* parameter fetch.
C25_UploadKeepsIdentity ==
    op.name = "uploadSpeech" =>
        \A first \in SentUserid("params"), last \in SentUserid("finish") : first = last

-----------------------------------------------------------------------------
(* Further properties of the server *)

\* a run of one of the two GET handlers that presents a session id
Resolving ==
    /\ Idle
    /\ handled'.route \in {"speech-ids", "transcript"}
    /\ handled'.sessionId # NoSessionId

\* C26: getOtterInstance hands out no client for a session whose timestamp
\* lies more than SESSION_TIMEOUT before now: it deletes that session and
\* throws, and no client is called.  For a live session it hands out the
\* stored client and sets the session's timestamp to now.  In both cases
\* every other session stays as it was.
C26_SlidingExpiry ==
    [][Resolving =>
          LET k == handled'.sessionId
              others == DOMAIN sessions \ {k}
          IN  /\ \A j \in others : j \in DOMAIN sessions' /\ sessions'[j] = sessions[j]
              /\ DOMAIN sessions' \subseteq DOMAIN sessions
              /\ k \notin DOMAIN sessions =>
                    /\ handled'.found = "missing"
                    /\ handled'.calls = <<>>
                    /\ sessions' = sessions
              /\ (k \in DOMAIN sessions /\ now - sessions[k].timestamp > SESSION_TIMEOUT) =>
                    /\ handled'.found = "expired"
                    /\ handled'.status = 500
                    /\ handled'.calls = <<>>
                    /\ k \notin DOMAIN sessions'
              /\ (k \in DOMAIN sessions /\ now - sessions[k].timestamp <= SESSION_TIMEOUT) =>
                    /\ handled'.found = "live"
                    /\ Len(handled'.calls) = 1
                    /\ handled'.calls[1].inst = sessions[k].otter.inst
                    /\ k \in DOMAIN sessions'
                    /\ sessions'[k] = [sessions[k] EXCEPT !.timestamp = now]
      ]_vars

\* a session last used one unit ago is used again next to another session
C26_Witness ==
    /\ handled.found = "live"
    /\ sessions[handled.sessionId].timestamp = now
    /\ now > 0
    /\ sessions[handled.sessionId].otter.inst = 1
    /\ Cardinality(DOMAIN sessions) = 2

\* an expired session is presented before the timer removed it
C26_WitnessExpired ==
    /\ handled.found = "expired"
    /\ handled.deleted = {handled.sessionId}
    /\ handled.status = 500

LoggedOut(k) == handled.route = "logout" /\ handled.sessionId = k

Resolves(k) == handled.found = "live" /\ handled.sessionId = k

\* the ids generateSessionId has produced so far
Issued == {generateSessionId(n) : n \in 1..(nextInst - 1)}

\* C27: once logout has been called with a session id that the server had
\* issued, no later request with that id reaches a client; the logout run
\* deletes that id and no other, leaves the other sessions as they were, and
\* answers 200 whether or not the id was in the map or was given at all.
C27_LogoutIsFinal ==
    /\ \A k \in SessionIds :
         []((LoggedOut(k) /\ k \in Issued) => [](~Resolves(k) /\ k \notin DOMAIN sessions))
    /\ [][(Idle /\ handled'.route = "logout") =>
             /\ handled'.status = 200
             /\ DOMAIN sessions' = DOMAIN sessions \ {handled'.sessionId}
             /\ \A j \in DOMAIN sessions' : sessions'[j] = sessions[j]
         ]_vars

\* a live session is logged out while another one stays
C27_Witness ==
    /\ handled.route = "logout"
    /\ handled.deleted = {handled.sessionId}
    /\ DOMAIN sessions # {}

\* logout without a session id
C27_WitnessNoId ==
    /\ handled.route = "logout"
    /\ handled.sessionId = NoSessionId
    /\ handled.status = 200

\* C28: in every state each session's client has a userid that is neither
\* null nor undefined and that equals the session's userId.
C28_SessionsAreAuthenticated ==
    \A k \in DOMAIN sessions :
        /\ ~_isUseridInvalid(sessions[k].otter.userid)
        /\ sessions[k].otter.userid = sessions[k].userId

====
